---------------------------- MODULE Spec2Model ----------------------------
(***************************************************************************)
(* Model of the geography utilities of the ground-control front-end       *)
(* (src/unnamed/part_000): the ellipsoid model factory, the               *)
(* FlatEarthCoordinateSystem class and the free functions                 *)
(* euclideanDistance, normalizeAngle and toPolar.                         *)
(*                                                                         *)
(* NUMBERS.  A JavaScript number is modelled as a record [n, d]:          *)
(*   d > 0          the rational n/d in lowest terms,                      *)
(*   d = 0, n = 1   +Infinity;   d = 0, n = -1   -Infinity,                *)
(*   d = 0, n = 0   NaN.                                                   *)
(* Arithmetic is exact, with the IEEE-754 results for the non-finite      *)
(* cases (x/0, Infinity - Infinity, ...), and with one rounding effect of  *)
(* binary floating point kept: a sum whose smaller addend is below half a  *)
(* unit in the last place of the larger one returns the larger addend      *)
(* (Add).  Doubles have a 53 bit significand; the model keeps              *)
(* SignificandBits bits, so that the magnitudes stay inside the 32 bit     *)
(* integers of the model checker: what a double absorbs below 2^-54 of the *)
(* larger addend, the model absorbs below 2^-(SignificandBits + 1) of it.  *)
(* Math.sin, Math.cos, Math.atan2 and                                      *)
(* Math.sqrt are library functions; they are modelled by their             *)
(* mathematical values on the arguments the model draws.                   *)
(***************************************************************************)
EXTENDS Integers, Sequences, FiniteSets, TLC

(***************************************************************************)
(* Integer helpers                                                         *)
(***************************************************************************)
IAbs(i) == IF i < 0 THEN -i ELSE i

RECURSIVE GCD(_, _)
GCD(a, b) == IF b = 0 THEN a ELSE GCD(b, a % b)

RECURSIVE Pow2(_)
Pow2(k) == IF k = 0 THEN 1 ELSE 2 * Pow2(k - 1)

(***************************************************************************)
(* JavaScript numbers                                                      *)
(***************************************************************************)
\* the rational n/d (d # 0) in lowest terms
R(n, d) ==
  LET s == IF d < 0 THEN -1 ELSE 1
      g == GCD(IAbs(n), IAbs(d))
  IN  [n |-> (s * n) \div g, d |-> (s * d) \div g]

N(i) == [n |-> i, d |-> 1]

NaN == [n |-> 0, d |-> 0]
PosInf == [n |-> 1, d |-> 0]
NegInf == [n |-> -1, d |-> 0]

IsNaN(x) == x.d = 0 /\ x.n = 0
IsFinite(x) == x.d > 0
IsInf(x) == x.d = 0 /\ x.n # 0

\* sign of a number that is not NaN: -1, 0 or 1
Sgn(x) == IF x.n < 0 THEN -1 ELSE IF x.n > 0 THEN 1 ELSE 0

Neg(x) == [n |-> -x.n, d |-> x.d]
Abs(x) == [n |-> IAbs(x.n), d |-> x.d]

\* The largest integer of the model checker, 2^31 - 1
MaxInt == 2147483646 + 1

\* a * b for naturals, MaxInt when the product is larger
SatMul(a, b) == IF b # 0 /\ a > MaxInt \div b THEN MaxInt ELSE a * b

\* |x| < |y| for finite numbers, the denominators first divided by g, their
\* greatest common divisor
LtMagnitude(x, y, g) ==
  SatMul(IAbs(x.n), y.d \div g) < SatMul(IAbs(y.n), x.d \div g)

\* x < y of JavaScript: false as soon as one side is NaN
Lt(x, y) ==
  IF IsNaN(x) \/ IsNaN(y) THEN FALSE
  ELSE IF IsInf(x) \/ IsInf(y)
       THEN (IF IsInf(x) THEN 2 * x.n ELSE Sgn(x)) < (IF IsInf(y) THEN 2 * y.n ELSE Sgn(y))
  ELSE IF Sgn(x) # Sgn(y) THEN Sgn(x) < Sgn(y)
  ELSE IF Sgn(x) > 0 THEN LtMagnitude(x, y, GCD(x.d, y.d))
  ELSE LtMagnitude(y, x, GCD(x.d, y.d))

Gt(x, y) == Lt(y, x)
Le(x, y) == ~IsNaN(x) /\ ~IsNaN(y) /\ ~Lt(y, x)

\* x === y of JavaScript on numbers: NaN equals nothing
StrictEq(x, y) == ~IsNaN(x) /\ ~IsNaN(y) /\ x = y

\* x * y, IEEE-754
Mul(x, y) ==
  IF IsNaN(x) \/ IsNaN(y) THEN NaN
  ELSE IF IsInf(x) \/ IsInf(y)
       THEN (IF Sgn(x) * Sgn(y) = 0 THEN NaN
             ELSE [n |-> Sgn(x) * Sgn(y), d |-> 0])
       ELSE LET g1 == GCD(IAbs(x.n), y.d)
                g2 == GCD(IAbs(y.n), x.d)
            IN  [n |-> (x.n \div g1) * (y.n \div g2),
                 d |-> (x.d \div g2) * (y.d \div g1)]

\* x / y, IEEE-754: a division by zero is no error, it yields an infinity
\* or NaN (the sign of a zero is not modelled: x/0 takes the sign of x)
Div(x, y) ==
  IF IsNaN(x) \/ IsNaN(y) THEN NaN
  ELSE IF IsInf(y) THEN (IF IsInf(x) THEN NaN ELSE N(0))
  ELSE IF IsInf(x) THEN [n |-> x.n * (IF Sgn(y) < 0 THEN -1 ELSE 1), d |-> 0]
  ELSE IF y.n = 0 THEN [n |-> Sgn(x), d |-> 0]
  ELSE Mul(x, R(y.d, y.n))

\* the exact sum of two finite numbers
ExactAdd(x, y) ==
  LET g == GCD(x.d, y.d)
  IN  R(x.n * (y.d \div g) + y.n * (x.d \div g), (x.d \div g) * y.d)

\* Number of significand bits of the model's floating point numbers: those
\* of single precision (an IEEE-754 double has 53)
SignificandBits == 24

\* 2^(SignificandBits + 1)
AbsorbDivisor == Pow2(SignificandBits + 1)

\* x is too small to change y when added to it: |x| < |y| * 2^-(p+1), which
\* is below half the distance from y to either of its neighbours
Absorbed(x, y) ==
  /\ x.n # 0
  /\ y.n # 0
  /\ LET g1 == GCD(IAbs(x.n), IAbs(y.n))
         g2 == GCD(x.d, y.d)
         num == SatMul(IAbs(x.n) \div g1, y.d \div g2)
         den == SatMul(x.d \div g2, IAbs(y.n) \div g1)
     IN  num < den \div AbsorbDivisor

\* x + y, IEEE-754 (round to nearest)
Add(x, y) ==
  IF IsNaN(x) \/ IsNaN(y) THEN NaN
  ELSE IF IsInf(x) THEN (IF IsInf(y) /\ x.n # y.n THEN NaN ELSE x)
  ELSE IF IsInf(y) THEN y
  ELSE IF Absorbed(x, y) THEN y
  ELSE IF Absorbed(y, x) THEN x
  ELSE ExactAdd(x, y)

Sub(x, y) == Add(x, Neg(y))

\* the integer part of a finite number, rounding towards zero
Trunc(x) == N(Sgn(x) * (IAbs(x.n) \div x.d))

\* x % y of JavaScript: the remainder has the sign of the dividend and is
\* exact
Mod(x, y) ==
  IF IsNaN(x) \/ IsNaN(y) \/ IsInf(x) \/ y.n = 0 THEN NaN
  ELSE IF IsInf(y) THEN x
  ELSE ExactAdd(x, Neg(Mul(y, Trunc(Div(x, y)))))

RECURSIVE ISqrtIn(_, _, _)
\* the k in lo .. hi-1 with k*k <= v < (k+1)*(k+1), given lo*lo <= v < hi*hi
ISqrtIn(v, lo, hi) ==
  IF hi - lo <= 1 THEN lo
  ELSE LET mid == (lo + hi) \div 2
       IN  IF mid * mid <= v THEN ISqrtIn(v, mid, hi) ELSE ISqrtIn(v, lo, mid)

\* floor of the square root of a natural number
ISqrt(v) == ISqrtIn(v, 0, IF v < 46340 THEN v + 1 ELSE 46340)

IsSquare(v) == LET k == ISqrt(v) IN k * k = v

\* Denominator to which an irrational square root is rounded
SqrtScale == 100

\* Math.sqrt: exact on the squares of rationals, rounded down to a multiple
\* of 1/SqrtScale elsewhere
Sqrt(x) ==
  IF IsNaN(x) \/ x.n < 0 THEN NaN
  ELSE IF IsInf(x) THEN PosInf
  ELSE IF IsSquare(x.n) /\ IsSquare(x.d) THEN R(ISqrt(x.n), ISqrt(x.d))
  ELSE R(ISqrt((x.n * SqrtScale * SqrtScale) \div x.d), SqrtScale)

\* Math.pow and the ** operator, for the two exponents the code uses:
\* 2 and 1.5
Pow(x, y) ==
  CASE y = N(2) -> Mul(x, x)
    [] y = R(3, 2) -> Mul(x, Sqrt(x))

\* Math.PI, to the precision of the model
PI == R(22, 7)

\* The angle with cosine 4/5 and sine 3/5, in degrees, to two decimals
PythagoreanAngle == R(3687, 100)

Radians(degrees) == Div(Mul(degrees, PI), N(180))

\* Math.cos, on the multiples of a right angle up to a full turn and on
\* PythagoreanAngle, in either direction.  The cosine of a right angle is 0
\* here; that of the double nearest to PI/2 is 6.1e-17.
Cos(x) ==
  LET a == Abs(x)
  IN  CASE a = N(0) -> N(1)
        [] a = Radians(N(90)) -> N(0)
        [] a = Radians(N(180)) -> N(-1)
        [] a = Radians(N(270)) -> N(0)
        [] a = Radians(N(360)) -> N(1)
        [] a = Radians(PythagoreanAngle) -> R(4, 5)

\* Math.sin on the same angles
Sin(x) ==
  LET a == Abs(x)
      s == CASE a = N(0) -> N(0)
             [] a = Radians(N(90)) -> N(1)
             [] a = Radians(N(180)) -> N(0)
             [] a = Radians(N(270)) -> N(-1)
             [] a = Radians(N(360)) -> N(0)
             [] a = Radians(PythagoreanAngle) -> R(3, 5)
  IN  IF x.n < 0 THEN Neg(s) ELSE s

\* Math.atan2(y, x), in radians in [-PI, PI]: on the axes, on the diagonals and
\* for the directions within SignificandBits bits of the X axis, where the
\* arc tangent of y/x is y/x to the precision of the model
Atan2(y, x) ==
  LET t == Div(y, x)
      small == x.n # 0 /\ IAbs(t.n) * Pow2(SignificandBits) <= t.d
  IN  CASE y.n = 0 /\ x.n >= 0 -> N(0)
        [] y.n = 0 /\ x.n < 0 -> PI
        [] x.n = 0 /\ y.n > 0 -> Div(PI, N(2))
        [] x.n = 0 /\ y.n < 0 -> Neg(Div(PI, N(2)))
        [] y.n # 0 /\ x.n > 0 /\ small -> t
        [] y.n > 0 /\ x.n < 0 /\ small -> Add(PI, t)
        [] y.n < 0 /\ x.n < 0 /\ small -> Add(Neg(PI), t)
        [] y.n # 0 /\ x.n # 0 /\ Abs(x) = Abs(y) ->
             Mul(N(Sgn(y)), Div(Mul(PI, N(IF x.n > 0 THEN 1 ELSE 3)), N(4)))

(***************************************************************************)
(* Strings are sequences of one-character strings                          *)
(***************************************************************************)
Digit(i) == << <<"0", "1", "2", "3", "4", "5", "6", "7", "8", "9">>[i + 1] >>

RECURSIVE NatToString(_)
NatToString(i) == IF i < 10 THEN Digit(i) ELSE NatToString(i \div 10) \o Digit(i % 10)

\* the last k decimal digits of i, with leading zeros
RECURSIVE LastDigits(_, _)
LastDigits(i, k) == IF k = 0 THEN <<>> ELSE LastDigits(i \div 10, k - 1) \o Digit(i % 10)

RECURSIVE Pow10(_)
Pow10(k) == IF k = 0 THEN 1 ELSE 10 * Pow10(k - 1)

\* Number.prototype.toFixed(digits) with digits >= 1, for a finite number below
\* 10^21: the decimal with exactly `digits` fractional digits nearest to x, the
\* larger one when two are equally near
ToFixed(x, digits) ==
  LET a == Abs(x)
      m == (2 * a.n * Pow10(digits) + a.d) \div (2 * a.d)
      body == NatToString(m \div Pow10(digits)) \o <<".">> \o LastDigits(m, digits)
  IN  IF x.n < 0 THEN <<"-">> \o body ELSE body

(***************************************************************************)
(* Arrays are sequences; a[i] of JavaScript is a[i + 1] here.  Reading past *)
(* the end yields undefined, which arithmetic turns into NaN.              *)
(***************************************************************************)
Index(a, i) == IF i + 1 \in DOMAIN a THEN a[i + 1] ELSE NaN

Min(a, b) == IF a <= b THEN a ELSE b

(***************************************************************************)
(* euclideanDistance                                                       *)
(***************************************************************************)
RECURSIVE euclideanDistanceLoop(_, _, _, _, _)
\* for (let i = 0; i < n; i++) sum += Math.pow(first[i] - second[i], 2)
euclideanDistanceLoop(first, second, n, i, sum) ==
  IF i < n
  THEN euclideanDistanceLoop(first, second, n, i + 1,
         Add(sum, Pow(Sub(Index(first, i), Index(second, i)), N(2))))
  ELSE sum

\* the distance over as many components as the first tuple has
euclideanDistanceOverFirst(first, second) ==
  Sqrt(euclideanDistanceLoop(first, second, Len(first), 0, N(0)))

euclideanDistance(first, second) ==
  LET n == Min(Len(first), Len(second))
  IN  Sqrt(euclideanDistanceLoop(first, second, n, 0, N(0)))

(***************************************************************************)
(* normalizeAngle                                                          *)
(***************************************************************************)
normalizeAngle(angle) ==
  ToFixed(Mod(Add(Mod(angle, N(360)), N(360)), N(360)), 2)

(***************************************************************************)
(* makeEllipsoidModel and WGS84.  An object is [fields, frozen].           *)
(***************************************************************************)
\* makeEllipsoidModel returning the object without freezing it
ObjectLeftOpen(fields) == [fields |-> fields, frozen |-> FALSE]

ObjectFreeze(fields) == [fields |-> fields, frozen |-> TRUE]

\* the frozen result, from the three fields of the object literal
ellipsoidModelOf(semiMajorAxis, inverseFlattening, flattening) ==
  ObjectFreeze(
    [inverseFlattening |-> inverseFlattening,
     semiMajorAxis |-> semiMajorAxis,
     flattening |-> flattening,
     eccentricitySquared |-> Mul(flattening, Sub(N(2), flattening)),
     eccentricity |-> Sqrt(Mul(flattening, Sub(N(2), flattening))),
     semiMinorAxis |-> Mul(semiMajorAxis, Sub(N(1), flattening)),
     meanRadius |-> Div(Add(Mul(semiMajorAxis, Sub(N(1), flattening)),
                            Mul(semiMajorAxis, N(2))), N(3))])

makeEllipsoidModel(semiMajorAxis, inverseFlattening) ==
  ellipsoidModelOf(semiMajorAxis, inverseFlattening, Div(N(1), inverseFlattening))

\* An assignment obj[field] = value in strict mode (module code is strict): on
\* a frozen object it changes nothing and throws a TypeError
SetProperty(obj, field, value) ==
  IF obj.frozen
  THEN [threw |-> TRUE, obj |-> obj]
  ELSE [threw |-> FALSE,
        obj |-> [obj EXCEPT !.fields = (field :> value) @@ obj.fields]]

\* The parameters of the ellipsoids of the model, <<semiMajorAxis,
\* inverseFlattening>>: a sphere (inverse flattening +Infinity) and an
\* oblate ellipsoid.  The WGS84 figures (6378137 m, 298.257223563) leave the
\* 32 bit range under exact arithmetic; the model measures the axis in
\* thousands of kilometres and takes the inverse flattening 18/11, for which
\* the radii of curvature are rational on the latitudes of Origins.
SphereParams == <<N(6), PosInf>>
OblateParams == <<N(6), R(18, 11)>>

WGS84 == makeEllipsoidModel(OblateParams[1], OblateParams[2])

(***************************************************************************)
(* FlatEarthCoordinateSystem.  An instance is the record of its fields; an *)
(* argument left out (undefined) is <<>>, a given one <<value>>.           *)
(***************************************************************************)
Undefined == <<>>
Given(v) == <<v>>
Default(arg, value) == IF arg = Undefined THEN value ELSE arg[1]

\* the object `this` on entry to the constructor: no field is set
NoFields == <<>>

neu == <<"n", "e", "u">>
nwu == <<"n", "w", "u">>

UnknownTypeMessage ==
  <<"u", "n", "k", "n", "o", "w", "n", " ", "c", "o", "o", "r", "d", "i", "n", "a", "t", "e", " ", "s", "y", "s", "t", "e", "m", " ", "t", "y", "p", "e", ":", " ">>

\* the rotation of OpenLayers' Coordinate.rotate, from the cosine and the
\* sine of the angle
rotateBy(coordinate, cosAngle, sinAngle) ==
  <<Sub(Mul(Index(coordinate, 0), cosAngle), Mul(Index(coordinate, 1), sinAngle)),
    Add(Mul(Index(coordinate, 1), cosAngle), Mul(Index(coordinate, 0), sinAngle))>>

\* Coordinate.rotate of OpenLayers: rotates the array in place and returns it
rotate(coordinate, angle) == rotateBy(coordinate, Cos(angle), Sin(angle))

\* the coefficients _precalculate caches, from its local constants
coefficients(self, piOver180, radius, eccSq, originLatInRadians, x) ==
  [_piOver180 |-> piOver180,
   _r1 |-> Div(Mul(radius, Sub(N(1), eccSq)), Pow(x, R(3, 2))),
   _r2OverCosOriginLatInRadians |->
     Mul(Div(radius, Sqrt(x)), Cos(originLatInRadians)),
   _yMul |-> IF self._type = neu THEN N(1) ELSE N(-1)] @@ self

\* _precalculate with the ellipsoid read: x = 1 - eccSq * sin(originLat)^2
precalculateOn(self, piOver180, radius, eccSq, originLatInRadians) ==
  coefficients(self, piOver180, radius, eccSq, originLatInRadians,
               Sub(N(1), Mul(eccSq, Pow(Sin(originLatInRadians), N(2)))))

\* _precalculate: `self` with the cached coefficients set; heap holds the
\* ellipsoid objects by name
precalculate(self, heap) ==
  precalculateOn(self, Div(PI, N(180)),
                 heap[self._ellipsoid].fields.semiMajorAxis,
                 heap[self._ellipsoid].fields.eccentricitySquared,
                 Mul(Index(self._origin, 1), Div(PI, N(180))))

\* a conversion that writes its result into the array it was given
ReturnedInPlace(self, coords, value) ==
  [threw |-> FALSE, this |-> self, coords |-> value, value |-> value]

\* a conversion that throws unless both numbers of its result are finite
ReturnedIfFinite(self, coords, value) ==
  [threw |-> ~(IsFinite(value[1]) /\ IsFinite(value[2])),
   this |-> self, coords |-> coords, value |-> value]

\* what a call that does not throw leaves: the object, the argument array
\* and the value returned
Returned(self, coords, value) ==
  [threw |-> FALSE, this |-> self, coords |-> coords, value |-> value]

\* a constructor that takes the type as it comes
constructorUnchecked(heap, origin, angle, type, ellipsoid) ==
  [threw |-> FALSE,
   message |-> <<>>,
   this |-> precalculate(
              [_origin |-> origin,
               _angle |-> Div(Mul(Default(angle, N(0)), PI), N(180)),
               _ellipsoid |-> Default(ellipsoid, "WGS84"),
               _type |-> Default(type, neu)], heap)]

\* new FlatEarthCoordinateSystem(origin, angle, type, ellipsoid): what the
\* constructor throws or the object it leaves
constructor(heap, origin, angle, type, ellipsoid) ==
  IF Default(type, neu) # neu /\ Default(type, neu) # nwu
  THEN [threw |-> TRUE,
        message |-> UnknownTypeMessage \o Default(type, neu),
        this |-> NoFields]
  ELSE [threw |-> FALSE,
        message |-> <<>>,
        this |-> precalculate(
                   [_origin |-> origin,
                    _angle |-> Div(Mul(Default(angle, N(0)), PI), N(180)),
                    _ellipsoid |-> Default(ellipsoid, "WGS84"),
                    _type |-> Default(type, neu)], heap)]

\* the second component left as the rotation gave it
withoutYMul(self, result) == result

\* result[1] *= this._yMul
timesYMul(self, result) == <<result[1], Mul(result[2], self._yMul)>>

\* fromLonLat taking the coordinates as displacements already
fromLonLatOfDisplacement(self, coords) ==
  Returned(self, coords,
    timesYMul(self,
      rotate(<<Mul(Mul(Index(coords, 1), self._piOver180), self._r1),
               Mul(Mul(Index(coords, 0), self._piOver180),
                   self._r2OverCosOriginLatInRadians)>>,
             Neg(self._angle))))

\* fromLonLat turning by the angle instead of against it
fromLonLatTurningForward(self, coords) ==
  Returned(self, coords,
    timesYMul(self,
      rotate(<<Mul(Mul(Sub(Index(coords, 1), Index(self._origin, 1)),
                       self._piOver180), self._r1),
               Mul(Mul(Sub(Index(coords, 0), Index(self._origin, 0)),
                       self._piOver180), self._r2OverCosOriginLatInRadians)>>,
             self._angle)))

\* fromLonLat: the object and the argument array as the call leaves them, and
\* the array returned
fromLonLat(self, coords) ==
  Returned(self, coords,
    timesYMul(self,
      rotate(<<Mul(Mul(Sub(Index(coords, 1), Index(self._origin, 1)),
                       self._piOver180), self._r1),
               Mul(Mul(Sub(Index(coords, 0), Index(self._origin, 0)),
                       self._piOver180), self._r2OverCosOriginLatInRadians)>>,
             Neg(self._angle))))

\* the last statement of toLonLat, on the rotated result
lonLatOf(self, result) ==
  <<Add(Div(Div(Index(result, 1), self._r2OverCosOriginLatInRadians),
            self._piOver180), Index(self._origin, 0)),
    Add(Div(Div(Index(result, 0), self._r1), self._piOver180),
        Index(self._origin, 1))>>

\* toLonLat turning the same way as fromLonLat
toLonLatTurningBack(self, coords) ==
  Returned(self, coords,
    lonLatOf(self, rotate(<<Index(coords, 0), Mul(Index(coords, 1), self._yMul)>>,
                          Neg(self._angle))))

\* toLonLat, likewise
toLonLat(self, coords) ==
  Returned(self, coords,
    lonLatOf(self, rotate(<<Index(coords, 0), Mul(Index(coords, 1), self._yMul)>>,
                          self._angle)))

(***************************************************************************)
(* toPolar                                                                 *)
(***************************************************************************)
\* [dist, (angle < 0) ? angle + 360 : angle]
polarOf(dist, angle) ==
  <<dist, IF Lt(angle, N(0)) THEN Add(angle, N(360)) ELSE angle>>

\* toPolar from the distance on
toPolarAt(coords, dist) ==
  IF Gt(dist, N(0))
  THEN polarOf(dist, Div(Mul(Atan2(Index(coords, 1), Index(coords, 0)), N(180)), PI))
  ELSE <<N(0), N(0)>>

toPolar(coords) ==
  toPolarAt(coords, Sqrt(Add(Mul(Index(coords, 0), Index(coords, 0)),
                             Mul(Index(coords, 1), Index(coords, 1)))))

(***************************************************************************)
(* Values of JavaScript that are not numbers: undefined and null are two   *)
(* records of the shape of a number that no arithmetic produces, and a     *)
(* string held where other values may be is a record of its characters.    *)
(***************************************************************************)
undefined == [n |-> 0, d |-> -2]
null == [n |-> 0, d |-> -1]
Str(chars) == [str |-> chars]

\* lodash isNil
isNil(value) == value = undefined \/ value = null

\* typeof value
typeof(value) ==
  IF "str" \in DOMAIN value THEN "string"
  ELSE IF value = undefined THEN "undefined"
  ELSE IF value = null THEN "object"
  ELSE "number"

\* MultiSelectableListView.defaultProps: no selection, no onChange
defaultProps == [value |-> <<>>, onChange |-> FALSE]

\* new UAV(id)
UAV(id) ==
  [_id |-> id,
   lastUpdated |-> undefined,
   agl |-> undefined,
   amsl |-> undefined,
   lat |-> undefined,
   lon |-> undefined,
   heading |-> undefined,
   error |-> undefined,
   battery |-> [voltage |-> undefined, percentage |-> undefined]]

\* The initial state of the mission slice
initialState ==
  [mapping |-> <<Str("03"), null, Str("01"), Str("02"), null>>,
   mappingEditor |-> [enabled |-> FALSE, indexBeingEdited |-> -1]]

(***************************************************************************)
(* State                                                                   *)
(***************************************************************************)
VARIABLES
  ellipsoids,  \* the ellipsoid objects, by the name that refers to them
  made,        \* for each ellipsoid, the arguments makeEllipsoidModel got
  cs,          \* the FlatEarthCoordinateSystem in use; NoFields before the first
  created,     \* the fields of cs as its constructor left them
  call,        \* the last call: what it got and what it returned or threw
  sent,        \* the messages handed to messageHub.sendMessage, in order
  promises,    \* for each message sent, the promise the command returned
  log,         \* the entries written to the 'messaging' logger, in order
  mission,     \* the state of the mission slice of the store
  props,       \* the props of a multi-selectable list, as its parent set them
  uav,         \* the fields of a UAV object
  currentError, \* the variable toggleErrorUAVs closes over
  toggles      \* the calls of toggleErrorUAVs: what each sent, and how far it is

geographyVars == <<ellipsoids, made, cs, created>>
messagingVars == <<sent, promises, log, currentError, toggles>>
missionVars == <<mission>>
listVars == <<props>>
uavVars == <<uav>>

\* the variables outside the geography utilities, outside messaging,
\* outside the mission slice, outside the list and outside the UAV, and all
\* but the last call
notGeography == <<messagingVars, missionVars, listVars, uavVars>>
notMessaging == <<geographyVars, missionVars, listVars, uavVars>>
notMission == <<geographyVars, messagingVars, listVars, uavVars>>
notList == <<geographyVars, messagingVars, missionVars, uavVars>>
notUAV == <<geographyVars, messagingVars, missionVars, listVars>>
notCall == <<geographyVars, messagingVars, missionVars, listVars, uavVars>>

vars == <<geographyVars, messagingVars, missionVars, listVars, uavVars, call>>

xyz == <<"x", "y", "z">>

\* Origins <<longitude, latitude>>: on the equator, at mid latitude, at a pole
Origins == {<<N(0), N(0)>>, <<N(19), PythagoreanAngle>>, <<N(0), N(90)>>}
AngleArgs == {Undefined} \cup {Given(a) : a \in {N(90), N(180), PythagoreanAngle}}
TypeArgs == {Undefined, Given(neu), Given(nwu), Given(xyz)}
EllipsoidParams == {SphereParams}

\* Displacements <<first, second>>, in degrees from the origin for the
\* longitude-latitude pairs and in metres for the flat Earth ones
Offsets == {<<0, 0>>, <<-1, 1>>, <<2, -1>>}
Planars == {<<N(o[1]), N(o[2])>> : o \in Offsets}
LonLatsAround(origin) == {<<Add(origin[1], N(o[1])), Add(origin[2], N(o[2]))>> : o \in Offsets}

Init ==
  /\ ellipsoids = [id \in {"WGS84"} |-> WGS84]
  /\ made = [id \in {"WGS84"} |-> OblateParams]
  /\ cs = NoFields
  /\ created = NoFields
  /\ call = [op |-> "none"]
  /\ sent = <<>>
  /\ promises = <<>>
  /\ log = <<>>
  /\ mission = initialState
  /\ props = defaultProps
  /\ uav = UAV("01")
  /\ currentError = <<>>
  /\ toggles = <<>>

\* const custom = makeEllipsoidModel(semiMajorAxis, inverseFlattening)
MakeEllipsoidModel(params) ==
  /\ "custom" \notin DOMAIN ellipsoids
  /\ ellipsoids' = ("custom" :> makeEllipsoidModel(params[1], params[2])) @@ ellipsoids
  /\ made' = ("custom" :> params) @@ made
  /\ call' = [op |-> "makeEllipsoidModel", args |-> params, out |-> [threw |-> FALSE]]
  /\ UNCHANGED <<cs, created>>
  /\ UNCHANGED notGeography

\* ellipsoid[field] = value, by any holder of the object
WriteEllipsoid(id, field, value) ==
  /\ call' = [op |-> "write", args |-> <<id, field, value>>,
              out |-> SetProperty(ellipsoids[id], field, value)]
  /\ ellipsoids' = [ellipsoids EXCEPT ![id] = call'.out.obj]
  /\ UNCHANGED <<made, cs, created>>
  /\ UNCHANGED notGeography

\* const cs = new FlatEarthCoordinateSystem(origin, angle, type, ellipsoid)
New(origin, angle, type, ellipsoid) ==
  /\ cs = NoFields
  /\ call' = [op |-> "new", args |-> <<origin, angle, type, ellipsoid>>,
              out |-> constructor(ellipsoids, origin, angle, type, ellipsoid)]
  /\ cs' = call'.out.this
  /\ created' = call'.out.this
  /\ UNCHANGED <<ellipsoids, made>>
  /\ UNCHANGED notGeography

\* cs.fromLonLat(coords)
FromLonLat(coords) ==
  /\ cs # NoFields
  /\ call' = [op |-> "fromLonLat", args |-> coords, out |-> fromLonLat(cs, coords)]
  /\ cs' = call'.out.this
  /\ UNCHANGED <<ellipsoids, made, created>>
  /\ UNCHANGED notGeography

\* cs.toLonLat(coords)
ToLonLat(coords) ==
  /\ cs # NoFields
  /\ call' = [op |-> "toLonLat", args |-> coords, out |-> toLonLat(cs, coords)]
  /\ cs' = call'.out.this
  /\ UNCHANGED <<ellipsoids, made, created>>
  /\ UNCHANGED notGeography

\* toLonLat on the object and the array a fromLonLat call left
thenToLonLat(there) == toLonLat(there.this, there.value)

\* cs.toLonLat(cs.fromLonLat(coords)): flat is the inner call, out the outer
RoundTrip(coords) ==
  /\ cs # NoFields
  /\ call' = [op |-> "roundTrip", args |-> coords,
              flat |-> fromLonLat(cs, coords),
              out |-> thenToLonLat(fromLonLat(cs, coords))]
  /\ cs' = call'.out.this
  /\ UNCHANGED <<ellipsoids, made, created>>
  /\ UNCHANGED notGeography

\* The same point in the two axis conventions: fromLonLat(coords) of
\* new FlatEarthCoordinateSystem(origin, undefined, 'neu', ellipsoid) and of
\* new FlatEarthCoordinateSystem(origin, undefined, 'nwu', ellipsoid), for
\* the origin and the ellipsoid of cs and the default angle 0
AxisConventions(coords) ==
  /\ cs # NoFields
  /\ call' = [op |-> "axisConventions", args |-> coords,
              neu |-> fromLonLat(constructor(ellipsoids, cs._origin, Undefined, Given(neu),
                                             Given(cs._ellipsoid)).this, coords),
              nwu |-> fromLonLat(constructor(ellipsoids, cs._origin, Undefined, Given(nwu),
                                             Given(cs._ellipsoid)).this, coords)]
  /\ UNCHANGED <<ellipsoids, made, cs, created>>
  /\ UNCHANGED notGeography

\* The compass directions of the constructor's JSDoc, in degrees
CompassAngles == {N(0), N(90), N(180), N(270)}

\* the point one degree from origin in the compass direction angle: north
\* is towards larger latitudes, east towards larger longitudes
Displaced(origin, angle) ==
  CASE angle = N(0) -> <<origin[1], Add(origin[2], N(1))>>
    [] angle = N(90) -> <<Add(origin[1], N(1)), origin[2]>>
    [] angle = N(180) -> <<origin[1], Sub(origin[2], N(1))>>
    [] angle = N(270) -> <<Sub(origin[1], N(1)), origin[2]>>

\* new FlatEarthCoordinateSystem(origin, angle, 'neu', ellipsoid).fromLonLat(p)
\* for the origin and the ellipsoid of cs, a compass direction as the angle
\* and p the point displaced from the origin in that direction
Heading(angle) ==
  /\ cs # NoFields
  /\ call' = [op |-> "heading", args |-> <<angle, Displaced(cs._origin, angle)>>,
              out |-> fromLonLat(constructor(ellipsoids, cs._origin, Given(angle), Given(neu),
                                             Given(cs._ellipsoid)).this,
                                 Displaced(cs._origin, angle))]
  /\ UNCHANGED <<ellipsoids, made, cs, created>>
  /\ UNCHANGED notGeography

\* what a free function that returns leaves
Value(value) == [threw |-> FALSE, value |-> value]

\* normalizeAngle(angle)
NormalizeAngle(angle) ==
  /\ call' = [op |-> "normalizeAngle", args |-> angle, out |-> Value(normalizeAngle(angle))]
  /\ UNCHANGED <<ellipsoids, made, cs, created>>
  /\ UNCHANGED notGeography

\* toPolar(coords)
ToPolar(coords) ==
  /\ call' = [op |-> "toPolar", args |-> coords, out |-> Value(toPolar(coords))]
  /\ UNCHANGED <<ellipsoids, made, cs, created>>
  /\ UNCHANGED notGeography

\* euclideanDistance(first, second)
EuclideanDistance(first, second) ==
  /\ call' = [op |-> "euclideanDistance", args |-> <<first, second>>,
              out |-> Value(euclideanDistance(first, second))]
  /\ UNCHANGED <<ellipsoids, made, cs, created>>
  /\ UNCHANGED notGeography

(***************************************************************************)
(* Arguments of the free functions                                         *)
(***************************************************************************)
\* Angles in degrees: whole ones, and thousandths of a degree around the
\* ends of [0, 360)
AngleInputs ==
  {N(a) : a \in {370, -10, 360, 0, 720, -360, -725, 45, 359, 1, -1, 90, -90, 180, -180,
                  270, 361, -370, 400, 540, 1000, -1000}}
    \cup {R(a, 1000) : a \in {359994, 359996, 359999, 360004, -1, -4, -6,
                              4, 6, 1004, 12346, 179996, -359996}}

\* Cartesian pairs: on the axes and the diagonals, and four a hair off the
\* X axis
PolarInputs ==
  {<<N(x), N(y)>> : x \in -1 .. 1, y \in -1 .. 1}
    \cup {<<N(2), N(0)>>, <<N(0), N(-3)>>, <<R(1, 2), R(1, 2)>>, <<N(-3), N(0)>>,
          <<N(0), N(2)>>, <<N(-2), N(2)>>, <<N(2), N(-2)>>, <<N(-3), N(-3)>>}
    \cup {<<N(x), R(y, 8192)>> : x \in {4096, -4096}, y \in {1, -1}}

\* Longest coordinate tuple drawn
MaxTupleLen == 2

Tuples ==
  UNION {[1 .. len -> {N(3), N(-1)}] : len \in 0 .. MaxTupleLen}

(***************************************************************************)
(* Specifications                                                          *)
(***************************************************************************)
\* The ellipsoid models and one coordinate system
Next ==
  \/ \E params \in EllipsoidParams : MakeEllipsoidModel(params)
  \/ \E id \in DOMAIN ellipsoids, field \in {"semiMajorAxis", "meanRadius", "extra"} :
        WriteEllipsoid(id, field, N(1))
  \/ \E origin \in Origins, angle \in AngleArgs, type \in TypeArgs,
        ellipsoid \in {Undefined} \cup {Given(id) : id \in DOMAIN ellipsoids} :
        New(origin, angle, type, ellipsoid)
  \/ cs # NoFields /\ \E coords \in LonLatsAround(cs._origin) : FromLonLat(coords)
  \/ \E coords \in Planars : ToLonLat(coords)
  \/ cs # NoFields /\ \E coords \in LonLatsAround(cs._origin) : RoundTrip(coords)
  \/ cs # NoFields /\ \E coords \in LonLatsAround(cs._origin) : AxisConventions(coords)
  \/ \E angle \in CompassAngles : Heading(angle)

Spec == Init /\ [][Next]_vars

\* The free functions
NextFn ==
  \/ \E angle \in AngleInputs : NormalizeAngle(angle)
  \/ \E coords \in PolarInputs : ToPolar(coords)
  \/ \E first \in Tuples, second \in Tuples : EuclideanDistance(first, second)

SpecFn == Init /\ [][NextFn]_vars

\* Every operation together, the free functions on a few arguments each
NextAll ==
  \/ Next
  \/ \E angle \in {N(-10), R(359996, 1000)} : NormalizeAngle(angle)
  \/ \E coords \in {<<N(0), N(0)>>, <<N(4096), R(-1, 8192)>>} : ToPolar(coords)
  \/ \E first \in {<<>>, <<N(3), N(0)>>} : EuclideanDistance(first, <<N(0), N(-1)>>)

SpecAll == Init /\ [][NextAll]_vars

(***************************************************************************)
(* Properties of FlatEarthCoordinateSystem and of the ellipsoid models,    *)
(* under Spec                                                              *)
(***************************************************************************)
\* the origin of cs is at the north or the south pole
AtPole == Abs(cs._origin[2]) = N(90)

Contains(s, t) ==
  \E i \in 1 .. Len(s) - Len(t) + 1 : SubSeq(s, i, i + Len(t) - 1) = t

\* C2: a type other than 'neu' and 'nwu' makes the constructor throw an
\* error whose message contains the type, with no field of the object set;
\* with 'neu', 'nwu' or no type the constructor returns an object
UnknownTypeRejected ==
  call.op = "new" =>
    IF Default(call.args[3], neu) \in {neu, nwu}
    THEN ~call.out.threw /\ cs # NoFields /\ cs._type = Default(call.args[3], neu)
    ELSE /\ call.out.threw
         /\ Contains(call.out.message, call.args[3][1])
         /\ call.out.this = NoFields
         /\ cs = NoFields

\* the constructor has thrown on the type 'xyz'
UnknownTypeRejectedReached ==
  /\ call.op = "new"
  /\ call.args[3] = Given(xyz)
  /\ call.out.threw
  /\ call.out.message = UnknownTypeMessage \o xyz

\* C3: fromLonLat of the origin is (0, 0), whatever the origin, the angle,
\* the axis convention and the ellipsoid
IdentityAtOrigin ==
  (call.op = "fromLonLat" /\ call.args = cs._origin) => call.out.value = <<N(0), N(0)>>

\* fromLonLat has been called on the origin of a rotated north-west-up
\* system on the custom ellipsoid, with an origin off the equator
IdentityAtOriginReached ==
  /\ call.op = "fromLonLat"
  /\ call.args = cs._origin
  /\ cs._origin = <<N(19), PythagoreanAngle>>
  /\ cs._angle = Radians(PythagoreanAngle)
  /\ cs._type = nwu
  /\ cs._ellipsoid = "custom"
  /\ call.out.value = <<N(0), N(0)>>

\* C4: at one origin and angle 0, fromLonLat of one point has the same first
\* component under 'neu' and 'nwu', and second components of equal magnitude
\* and opposite sign
AxisConventionSign ==
  call.op = "axisConventions" =>
    /\ call.neu.value[1] = call.nwu.value[1]
    /\ call.nwu.value[2] = Neg(call.neu.value[2])

\* both conventions have been applied to a point north-west of an origin off
\* the poles
AxisConventionSignReached ==
  /\ call.op = "axisConventions"
  /\ call.neu.value[1] # N(0)
  /\ Gt(Abs(call.neu.value[2]), N(0))
  /\ call.nwu.value[2] = Neg(call.neu.value[2])

\* C5: the fields of a coordinate system are those its constructor left,
\* after any calls of fromLonLat and toLonLat, and neither call changes the
\* array it is given
ImmutableAfterConstruction ==
  /\ cs = created
  /\ call.op \in {"fromLonLat", "toLonLat"} => call.out.coords = call.args
  /\ call.op = "roundTrip" =>
       call.flat.coords = call.args /\ call.out.coords = call.flat.value

\* toLonLat has returned an array other than the one it was given, on a
\* system that fromLonLat or toLonLat was called on before
ImmutableAfterConstructionReached ==
  /\ call.op = "toLonLat"
  /\ call.out.value # call.args
  /\ call.out.coords = call.args
  /\ cs # NoFields
  /\ cs = created
  /\ DOMAIN cs = {"_origin", "_angle", "_type", "_ellipsoid", "_piOver180", "_r1",
                  "_r2OverCosOriginLatInRadians", "_yMul"}

\* the fields of an ellipsoid model as functions of the two arguments
EllipsoidFieldsOf(a, invF) ==
  [semiMajorAxis |-> a,
   inverseFlattening |-> invF,
   flattening |-> Div(N(1), invF),
   eccentricitySquared |-> Mul(Div(N(1), invF), Sub(N(2), Div(N(1), invF))),
   eccentricity |-> Sqrt(Mul(Div(N(1), invF), Sub(N(2), Div(N(1), invF)))),
   semiMinorAxis |-> Mul(a, Sub(N(1), Div(N(1), invF))),
   meanRadius |-> Div(Add(Mul(a, Sub(N(1), Div(N(1), invF))), Mul(N(2), a)), N(3))]

\* C10: every ellipsoid model, WGS84 included, has at all times exactly the
\* fields that follow from the semiMajorAxis and the inverseFlattening it
\* was made with, whatever has been written to it since
EllipsoidNeverMutated ==
  \A id \in DOMAIN ellipsoids :
    ellipsoids[id].fields = EllipsoidFieldsOf(made[id][1], made[id][2])

\* a field of the custom ellipsoid has been written to, with WGS84 and the
\* custom ellipsoid of different shapes
EllipsoidNeverMutatedReached ==
  /\ call.op = "write"
  /\ call.args[1] = "custom"
  /\ call.args[2] = "semiMajorAxis"
  /\ call.out.threw
  /\ ellipsoids["custom"].fields.flattening = N(0)
  /\ ellipsoids["WGS84"].fields.flattening = R(11, 18)

DigitChars == {"0", "1", "2", "3", "4", "5", "6", "7", "8", "9"}

DigitValue(c) == CHOOSE i \in 0 .. 9 : Digit(i) = <<c>>

\* the natural number a string of digits denotes
RECURSIVE ParseNat(_)
ParseNat(s) ==
  IF s = <<>> THEN 0
  ELSE 10 * ParseNat(SubSeq(s, 1, Len(s) - 1)) + DigitValue(s[Len(s)])

\* s is digits, a point and two digits
HasTwoDecimals(s) ==
  /\ Len(s) >= 4
  /\ s[Len(s) - 2] = "."
  /\ \A i \in (1 .. Len(s)) \ {Len(s) - 2} : s[i] \in DigitChars

\* the number such a string denotes
FixedValue(s) == R(ParseNat(SubSeq(s, 1, Len(s) - 3) \o SubSeq(s, Len(s) - 1, Len(s))), 100)

\* C6 as stated: normalizeAngle returns a string of digits with two decimals
\* that denotes a number in [0, 360), so never "360.00"; 370 gives "10.00",
\* -10 gives "350.00" and 360 gives "0.00"
NormalizeAngleBelow360 ==
  call.op = "normalizeAngle" =>
    /\ HasTwoDecimals(call.out.value)
    /\ Le(N(0), FixedValue(call.out.value))
    /\ Lt(FixedValue(call.out.value), N(360))
    /\ call.args = N(370) => call.out.value = <<"1", "0", ".", "0", "0">>
    /\ call.args = N(-10) => call.out.value = <<"3", "5", "0", ".", "0", "0">>
    /\ call.args = N(360) => call.out.value = <<"0", ".", "0", "0">>

\* C7 as stated: toPolar of (0, 0) is [0, 0]; of any other pair it is a
\* distance above 0 and an angle in [0, 360); (1, 0) gives [1, 0], (0, 1)
\* gives [1, 90] and (-1, 0) gives [1, 180]
ToPolarBelow360 ==
  call.op = "toPolar" =>
    /\ IF call.args = <<N(0), N(0)>>
       THEN call.out.value = <<N(0), N(0)>>
       ELSE /\ Gt(call.out.value[1], N(0))
            /\ Le(N(0), call.out.value[2])
            /\ Lt(call.out.value[2], N(360))
    /\ call.args = <<N(1), N(0)>> => call.out.value = <<N(1), N(0)>>
    /\ call.args = <<N(0), N(1)>> => call.out.value = <<N(1), N(90)>>
    /\ call.args = <<N(-1), N(0)>> => call.out.value = <<N(1), N(180)>>

\* the sum of the squared differences of the first k components
RECURSIVE SumOfSquares(_, _, _)
SumOfSquares(a, b, k) ==
  IF k = 0 THEN N(0)
  ELSE Add(SumOfSquares(a, b, k - 1), Mul(Sub(a[k], b[k]), Sub(a[k], b[k])))

\* the first k components
Prefix(a, k) == SubSeq(a, 1, k)

\* C8: euclideanDistance is the square root of the sum of the squared
\* differences over the first min(len) components, does not change when the
\* tuples are cut to that length or swapped, and is 0 when those components
\* are equal, as they are when a tuple is empty
EuclideanDistanceOverShorter ==
  call.op = "euclideanDistance" =>
    /\ call.out.value =
         Sqrt(SumOfSquares(call.args[1], call.args[2],
                           Min(Len(call.args[1]), Len(call.args[2]))))
    /\ call.out.value =
         euclideanDistance(Prefix(call.args[1], Min(Len(call.args[1]), Len(call.args[2]))),
                           Prefix(call.args[2], Min(Len(call.args[1]), Len(call.args[2]))))
    /\ call.out.value = euclideanDistance(call.args[2], call.args[1])
    /\ Prefix(call.args[1], Min(Len(call.args[1]), Len(call.args[2])))
         = Prefix(call.args[2], Min(Len(call.args[1]), Len(call.args[2])))
       => call.out.value = N(0)

\* the distance of a longer tuple from a shorter one has come out as that of
\* their common components, which differ
EuclideanDistanceOverShorterReached ==
  /\ call.op = "euclideanDistance"
  /\ call.args = << <<N(3), N(-1)>>, <<N(-1)>> >>
  /\ call.out.value = N(4)

(***************************************************************************)
(* Property of all the operations, under SpecAll                           *)
(***************************************************************************)
\* C9: fromLonLat, toLonLat, toPolar, normalizeAngle and euclideanDistance
\* return without throwing, at pole origins too, and so does the
\* constructor given a recognized axis convention or none
NoOperationFails ==
  /\ call.op \in {"fromLonLat", "toLonLat", "roundTrip", "toPolar", "normalizeAngle",
                  "euclideanDistance"} => ~call.out.threw
  /\ call.op = "roundTrip" => ~call.flat.threw
  /\ (call.op = "new" /\ call.args[3] # Given(xyz)) => ~call.out.threw

\* toLonLat has returned on a system with its origin at a pole, where the
\* longitude it computes is not finite
NoOperationFailsReached ==
  /\ call.op = "toLonLat"
  /\ AtPole
  /\ ~call.out.threw
  /\ ~IsFinite(call.out.value[1])

(***************************************************************************)
(* MESSAGING (src/src/utils/messaging.js) and the 'Fly here' item of the    *)
(* map context menu (src/src/views/map/MapContextMenu.jsx).                 *)
(*                                                                         *)
(* An object is a record of the properties it has, and a string built by   *)
(* a template literal is the sequence of its pieces.                       *)
(***************************************************************************)
\* obj[key]: undefined when the object has no such property
Prop(obj, key) == IF key \in DOMAIN obj THEN obj[key] ELSE undefined

\* the number an operand of * is converted to
ToNumber(value) ==
  IF value = undefined THEN NaN ELSE IF value = null THEN N(0) ELSE value

\* Math.round: the nearest integer, the larger one of two equally near
MathRound(x) ==
  IF ~IsFinite(x) THEN x
  ELSE N((x.n \div x.d) + (IF 2 * (x.n % x.d) >= x.d THEN 1 ELSE 0))

\* Math.round(value * factor)
Scaled(value, factor) == MathRound(Mul(ToNumber(value), N(factor)))

\* array.join(separator), as the pieces of the string
RECURSIVE Join(_, _)
Join(array, separator) ==
  IF Len(array) = 0 THEN <<>>
  ELSE IF Len(array) = 1 THEN <<array[1]>>
  ELSE <<array[1], separator>> \o Join(Tail(array), separator)

\* What a command function does before the response: the message it hands
\* to messageHub.sendMessage and the arguments of the processResponse it
\* chains to the promise
Command(message, expectedType, commandName) ==
  [message |-> message, expectedType |-> expectedType, commandName |-> commandName]

takeoffUAVs(uavs) ==
  Command([type |-> "UAV-TAKEOFF", ids |-> uavs], "UAV-TAKEOFF", "Takeoff command")

landUAVs(uavs) ==
  Command([type |-> "UAV-LAND", ids |-> uavs], "UAV-LAND", "Landing command")

returnToHomeUAVs(uavs) ==
  Command([type |-> "UAV-RTH", ids |-> uavs], "UAV-RTH", "Return to home command")

haltUAVs(uavs) ==
  Command([type |-> "UAV-HALT", ids |-> uavs], "UAV-HALT", "Halt command")

\* moveUAVs with the longitude first in the target
moveUAVsLonFirst(uavs, target) ==
  Command([type |-> "UAV-FLY",
           ids |-> uavs,
           target |-> <<Scaled(Prop(target, "lon"), 10000000),
                        Scaled(Prop(target, "lat"), 10000000),
                        IF isNil(Prop(target, "amsl")) THEN null
                        ELSE Scaled(Prop(target, "amsl"), 1000),
                        IF isNil(Prop(target, "agl")) THEN null
                        ELSE Scaled(Prop(target, "agl"), 1000)>>],
          "UAV-FLY", "Fly to target command")

moveUAVs(uavs, target) ==
  Command([type |-> "UAV-FLY",
           ids |-> uavs,
           target |-> <<Scaled(Prop(target, "lat"), 10000000),
                        Scaled(Prop(target, "lon"), 10000000),
                        IF isNil(Prop(target, "amsl")) THEN null
                        ELSE Scaled(Prop(target, "amsl"), 1000),
                        IF isNil(Prop(target, "agl")) THEN null
                        ELSE Scaled(Prop(target, "agl"), 1000)>>],
          "UAV-FLY", "Fly to target command")

\* MapContextMenu._moveSelectedUAVsAtCurrentAltitude, on the context of the
\* click
moveSelectedUAVsAtCurrentAltitude(context) ==
  moveUAVs(context.selectedUAVIds,
           [target |-> [lat |-> Index(context.coords, 1),
                        lon |-> Index(context.coords, 0)]])

\* one call of the logger
LogEntry(level, message) == [level |-> level, message |-> message]

\* what a response handler leaves: whether it threw, and the log entries
\* it wrote
Handled(entries) == [threw |-> FALSE, entries |-> entries]

\* processResponse(expectedType, commandName)(response), once the response
\* has a body
\* processBody testing the failure list before the type of the response
processBodyFailureFirst(expectedType, commandName, body) ==
  IF "type" \in DOMAIN body /\ body.type = "ACK-NAK"
  THEN Handled(<<LogEntry("error",
         <<commandName, " execution rejected by server; ", "reason: ",
           IF "reason" \in DOMAIN body /\ body.reason # "" THEN body.reason
           ELSE "unknown">>)>>)
  ELSE IF "failure" \in DOMAIN body
  THEN Handled(<<LogEntry("error",
         <<commandName, " execution failed for ">> \o Join(body.failure, ", "))>>)
  ELSE IF ~("type" \in DOMAIN body /\ body.type = expectedType)
  THEN Handled(<<LogEntry("error",
         <<commandName, " response has an unexpected type: ",
           IF "type" \in DOMAIN body THEN body.type ELSE "undefined",
           ", expected ", expectedType>>)>>)
  ELSE Handled(<<LogEntry("info", <<commandName, " execution was successful">>)>>)

processBody(expectedType, commandName, body) ==
  IF "type" \in DOMAIN body /\ body.type = "ACK-NAK"
  THEN Handled(<<LogEntry("error",
         <<commandName, " execution rejected by server; ", "reason: ",
           IF "reason" \in DOMAIN body /\ body.reason # "" THEN body.reason
           ELSE "unknown">>)>>)
  ELSE IF ~("type" \in DOMAIN body /\ body.type = expectedType)
  THEN Handled(<<LogEntry("error",
         <<commandName, " response has an unexpected type: ",
           IF "type" \in DOMAIN body THEN body.type ELSE "undefined",
           ", expected ", expectedType>>)>>)
  ELSE IF "failure" \in DOMAIN body
  THEN Handled(<<LogEntry("error",
         <<commandName, " execution failed for ">> \o Join(body.failure, ", "))>>)
  ELSE Handled(<<LogEntry("info", <<commandName, " execution was successful">>)>>)

\* processResponse(expectedType, commandName)(response)
processResponse(expectedType, commandName, response) ==
  IF response # undefined
  THEN IF "body" \in DOMAIN response
       THEN processBody(expectedType, commandName, response.body)
       ELSE Handled(<<LogEntry("error", <<commandName, " response has no body">>)>>)
  ELSE Handled(<<LogEntry("error", <<commandName, " response should not be empty">>)>>)

\* Most commands issued in a run
MaxCommands == 1

\* messageHub.sendMessage(command.message).then(processResponse(...)): the
\* hub takes the message and the command returns a pending promise
Send(op, args, command) ==
  /\ Len(sent) < MaxCommands
  /\ sent' = Append(sent, command.message)
  /\ promises' = Append(promises, [expectedType |-> command.expectedType,
                                   commandName |-> command.commandName,
                                   state |-> "pending"])
  /\ call' = [op |-> op, args |-> args, out |-> [threw |-> FALSE]]
  /\ UNCHANGED <<log, currentError, toggles>>
  /\ UNCHANGED notMessaging

TakeoffUAVs(uavs) == Send("takeoffUAVs", <<uavs>>, takeoffUAVs(uavs))

LandUAVs(uavs) == Send("landUAVs", <<uavs>>, landUAVs(uavs))

ReturnToHomeUAVs(uavs) == Send("returnToHomeUAVs", <<uavs>>, returnToHomeUAVs(uavs))

HaltUAVs(uavs) == Send("haltUAVs", <<uavs>>, haltUAVs(uavs))

MoveUAVs(uavs, target) == Send("moveUAVs", <<uavs, target>>, moveUAVs(uavs, target))

\* 'Fly here' chosen in the context menu; the item is there only when UAVs
\* are selected
FlyHere(context) ==
  /\ Len(context.selectedUAVIds) > 0
  /\ Send("flyHere", <<context>>, moveSelectedUAVsAtCurrentAltitude(context))

\* The hub resolves the promise of message i with a response: the handler
\* chained by then() runs, and the promise the command returned resolves
\* unless the handler throws
Respond(i, response) ==
  /\ promises[i].state = "pending"
  /\ call' = [op |-> "respond", args |-> <<i, response>>,
              out |-> processResponse(promises[i].expectedType,
                                      promises[i].commandName, response)]
  /\ log' = log \o call'.out.entries
  /\ promises' = [promises EXCEPT
                    ![i].state = IF call'.out.threw THEN "rejected" ELSE "resolved"]
  /\ UNCHANGED <<sent, currentError, toggles>>
  /\ UNCHANGED notMessaging

\* The function each UAV command item of the context menu calls, by the
\* key of the item: _takeoffUAVs, _landUAVs, _returnSelectedUAVs, _resetUAVs
\* and _shutdownSelectedUAVs
messagingFunctionOf ==
  [takeoff |-> "takeoffUAVs", land |-> "landUAVs", home |-> "returnToHomeUAVs",
   reset |-> "resetUAVs", shutdown |-> "shutdownUAVs"]

\* messaging[name](uavs) for the functions of one argument that
\* utils/messaging exports; undefined stands for the TypeError of calling a
\* member the module does not have
messaging(name, uavs) ==
  IF name = "takeoffUAVs" THEN takeoffUAVs(uavs)
  ELSE IF name = "landUAVs" THEN landUAVs(uavs)
  ELSE IF name = "returnToHomeUAVs" THEN returnToHomeUAVs(uavs)
  ELSE IF name = "haltUAVs" THEN haltUAVs(uavs)
  ELSE undefined

\* A UAV command item of the context menu is activated; the items are there
\* only when UAVs are selected
CommandItem(key, context) ==
  /\ Len(context.selectedUAVIds) > 0
  /\ IF messaging(messagingFunctionOf[key], context.selectedUAVIds) = undefined
     THEN /\ call' = [op |-> "commandItem", args |-> <<key, context>>,
                      out |-> [threw |-> TRUE]]
          /\ UNCHANGED messagingVars
          /\ UNCHANGED notMessaging
     ELSE Send("commandItem", <<key, context>>,
               messaging(messagingFunctionOf[key], context.selectedUAVIds))

\* Lists of UAV ids
UAVLists == {<<>>, <<"01">>, <<"02", "03">>}

\* Targets of moveUAVs: without altitudes, with altitudes that are null or
\* undefined, with coordinates that Math.round rounds up or down
Targets ==
  {[lat |-> R(4751, 100), lon |-> R(1904, 100)],
   [lat |-> R(-1, 20000000), lon |-> R(1, 30000000), amsl |-> R(2001, 2000), agl |-> null],
   [lat |-> N(-33), lon |-> N(151), amsl |-> undefined, agl |-> N(10)]}

\* Contexts of a click on the map: the coordinates [lon, lat] and the
\* selection
Contexts ==
  {[coords |-> c, selectedUAVIds |-> u] :
     c \in {<<R(1904, 100), R(4751, 100)>>, <<N(-122), R(3745, 100)>>},
     u \in {<<"01">>, <<"02", "03">>}}

\* Bodies of a response to a command that expects expectedType
Bodies(expectedType) ==
  {[type |-> "ACK-NAK", reason |-> "busy"],
   [type |-> "ACK-NAK", reason |-> ""],
   [type |-> "ACK-NAK"],
   [type |-> "ACK-NAK", failure |-> <<"01">>],
   [type |-> "UAV-INF"],
   [type |-> "UAV-INF", failure |-> <<"01">>],
   [failure |-> <<"01">>],
   [type |-> expectedType, failure |-> <<"01", "02">>],
   [type |-> expectedType, failure |-> <<>>],
   [type |-> expectedType],
   [type |-> expectedType, reason |-> "busy"]}

\* Responses: none, one without a body, one with each body
Responses(expectedType) ==
  {undefined, [refs |-> "1"]} \cup {[body |-> b] : b \in Bodies(expectedType)}

NextMessaging ==
  \/ \E uavs \in UAVLists : TakeoffUAVs(uavs)
  \/ \E uavs \in UAVLists : LandUAVs(uavs)
  \/ \E uavs \in UAVLists : ReturnToHomeUAVs(uavs)
  \/ \E uavs \in UAVLists : HaltUAVs(uavs)
  \/ \E target \in Targets : MoveUAVs(<<"02", "03">>, target)
  \/ \E context \in Contexts : FlyHere(context)
  \/ \E key \in DOMAIN messagingFunctionOf :
       \E context \in {[selectedUAVIds |-> <<"01">>], [selectedUAVIds |-> <<"02", "03">>]} :
         CommandItem(key, context)
  \/ \E i \in DOMAIN promises :
       \E response \in Responses(promises[i].expectedType) : Respond(i, response)

SpecMessaging == Init /\ [][NextMessaging]_vars

(***************************************************************************)
(* Properties of the commands and their responses, under SpecMessaging     *)
(***************************************************************************)
\* r is the integer nearest to x, the larger one when two are equally near
IsRoundOf(r, x) ==
  /\ r.d = 1
  /\ Le(R(-1, 2), ExactAdd(x, Neg(r)))
  /\ Lt(ExactAdd(x, Neg(r)), R(1, 2))

\* C12: after 'Fly here' on coordinates [lon, lat] with a selection that is
\* not empty, the message sent is a UAV-FLY whose ids are the selection and
\* whose target is [round(lat * 1e7), round(lon * 1e7), null, null]
FlyHereTargetsTheClick ==
  call.op = "flyHere" =>
    /\ sent[Len(sent)].type = "UAV-FLY"
    /\ sent[Len(sent)].ids = call.args[1].selectedUAVIds
    /\ IsRoundOf(sent[Len(sent)].target[1], Mul(call.args[1].coords[2], N(10000000)))
    /\ IsRoundOf(sent[Len(sent)].target[2], Mul(call.args[1].coords[1], N(10000000)))
    /\ sent[Len(sent)].target[3] = null
    /\ sent[Len(sent)].target[4] = null

\* the type of the message of each command that takes only a list of UAVs
MessageTypeOf ==
  [takeoffUAVs |-> "UAV-TAKEOFF", landUAVs |-> "UAV-LAND",
   returnToHomeUAVs |-> "UAV-RTH", haltUAVs |-> "UAV-HALT"]

\* r is round(target[key] * 1e3), or null when target has no such altitude
IsMillisOf(r, target, key) ==
  IF key \in DOMAIN target /\ target[key] # null /\ target[key] # undefined
  THEN IsRoundOf(r, Mul(target[key], N(1000)))
  ELSE r = null

\* C13: takeoffUAVs, landUAVs, returnToHomeUAVs and haltUAVs each send
\* exactly one message, of type UAV-TAKEOFF, UAV-LAND, UAV-RTH and UAV-HALT,
\* whose ids are the list given; moveUAVs sends exactly one UAV-FLY message
\* with those ids and the target [round(lat * 1e7), round(lon * 1e7),
\* round(amsl * 1e3) or null, round(agl * 1e3) or null]
CommandsSendOneMessage ==
  [][/\ call'.op \in DOMAIN MessageTypeOf =>
          sent' = Append(sent, [type |-> MessageTypeOf[call'.op],
                                ids |-> call'.args[1]])
     /\ call'.op = "moveUAVs" =>
          /\ Len(sent') = Len(sent) + 1
          /\ SubSeq(sent', 1, Len(sent)) = sent
          /\ DOMAIN sent'[Len(sent')] = {"type", "ids", "target"}
          /\ sent'[Len(sent')].type = "UAV-FLY"
          /\ sent'[Len(sent')].ids = call'.args[1]
          /\ Len(sent'[Len(sent')].target) = 4
          /\ IsRoundOf(sent'[Len(sent')].target[1],
                       Mul(call'.args[2].lat, N(10000000)))
          /\ IsRoundOf(sent'[Len(sent')].target[2],
                       Mul(call'.args[2].lon, N(10000000)))
          /\ IsMillisOf(sent'[Len(sent')].target[3], call'.args[2], "amsl")
          /\ IsMillisOf(sent'[Len(sent')].target[4], call'.args[2], "agl")]_vars

\* moveUAVs has sent a target whose latitude of -0.5e-7 was rounded up to 0,
\* whose amsl of 1.0005 was rounded up to 1001 and whose agl is null
CommandsSendOneMessageReached ==
  /\ call.op = "moveUAVs"
  /\ call.args[2].lat = R(-1, 20000000)
  /\ sent[Len(sent)] = [type |-> "UAV-FLY", ids |-> <<"02", "03">>,
                        target |-> <<N(0), N(0), N(1001), null>>]

\* the kind of a log message: the text that follows the name of the command
KindOf(entry) == entry.message[2]

\* the log entry the claim describes for a response to a command that
\* expects expectedType
IsEntryFor(entry, expectedType, response) ==
  IF response = undefined
  THEN entry.level = "error" /\ KindOf(entry) = " response should not be empty"
  ELSE IF "body" \notin DOMAIN response
  THEN entry.level = "error" /\ KindOf(entry) = " response has no body"
  ELSE IF "type" \in DOMAIN response.body /\ response.body.type = "ACK-NAK"
  THEN /\ entry.level = "error"
       /\ KindOf(entry) = " execution rejected by server; "
       /\ entry.message[4] =
            (IF "reason" \in DOMAIN response.body /\ response.body.reason # ""
             THEN response.body.reason ELSE "unknown")
  ELSE IF "type" \notin DOMAIN response.body \/ response.body.type # expectedType
  THEN entry.level = "error" /\ KindOf(entry) = " response has an unexpected type: "
  ELSE IF "failure" \in DOMAIN response.body
  THEN entry.level = "error" /\ KindOf(entry) = " execution failed for "
  ELSE entry.level = "info" /\ KindOf(entry) = " execution was successful"

\* C14: the handler of a response writes exactly one log entry and the
\* promise of the command still resolves; the entry is an error when the
\* response is empty, has no body, is an ACK-NAK (with its reason, or
\* 'unknown'), has another type than expected, or lists failures, tested in
\* this order, and an info entry only when the type matches with no failure
OneLogEntryPerResponse ==
  [][call'.op = "respond" =>
       /\ Len(log') = Len(log) + 1
       /\ SubSeq(log', 1, Len(log)) = log
       /\ IsEntryFor(log'[Len(log')],
                     promises[call'.args[1]].expectedType, call'.args[2])
       /\ promises[call'.args[1]].state = "pending"
       /\ promises'[call'.args[1]].state = "resolved"]_vars

\* a response of another type that lists failures has been logged as one of
\* an unexpected type
OneLogEntryPerResponseReached ==
  /\ call.op = "respond"
  /\ call.args[2] = [body |-> [type |-> "UAV-INF", failure |-> <<"01">>]]
  /\ Len(log) = 1
  /\ log[1].level = "error"
  /\ KindOf(log[1]) = " response has an unexpected type: "
  /\ promises[call.args[1]].state = "resolved"

(***************************************************************************)
(* formatIdsAndTruncateTrailingItems                                       *)
(***************************************************************************)
\* An argument that is an array of the given items, and one that is not an
\* array
ArrayOf(items) == [array |-> TRUE, items |-> items]
NotArray == [array |-> FALSE]

\* array.slice(0, end): a negative end counts from the end of the array
Slice(array, end) ==
  SubSeq(array, 1,
         IF end < 0 THEN (IF Len(array) + end < 0 THEN 0 ELSE Len(array) + end)
         ELSE Min(end, Len(array)))

\* formatIdsAndTruncateTrailingItems that lists maxCount ids before the
\* suffix
formatIdsListingMaxCount(ids, length, maxCount, separator) ==
  IF length = 0 THEN <<>>
  ELSE IF length > maxCount
  THEN Join(Slice(ids.items, maxCount), separator)
         \o <<" and ">> \o NatToString(length - maxCount + 1) \o <<" more">>
  ELSE Join(ids.items, separator)

\* the body of formatIdsAndTruncateTrailingItems once length, maxCount and
\* separator are known; the string returned, as its pieces
formatIds(ids, length, maxCount, separator) ==
  IF length = 0 THEN <<>>
  ELSE IF length > maxCount
  THEN Join(Slice(ids.items, maxCount - 1), separator)
         \o <<" and ">> \o NatToString(length - maxCount + 1) \o <<" more">>
  ELSE Join(ids.items, separator)

\* { maxCount = 8, separator = ' · ' } = {}
maxCountOf(options) == IF "maxCount" \in DOMAIN options THEN options.maxCount ELSE 8
separatorOf(options) == IF "separator" \in DOMAIN options THEN options.separator ELSE " · "

formatIdsAndTruncateTrailingItems(ids, options) ==
  formatIds(ids, IF ids.array THEN Len(ids.items) ELSE 0,
            maxCountOf(options), separatorOf(options))

FormatIdsAndTruncateTrailingItems(ids, options) ==
  /\ call' = [op |-> "formatIdsAndTruncateTrailingItems", args |-> <<ids, options>>,
              out |-> [threw |-> FALSE,
                       value |-> formatIdsAndTruncateTrailingItems(ids, options)]]
  /\ UNCHANGED notCall

\* Longest list of ids formatted, but for the one that is longer than the
\* default maxCount
MaxIds == 4

IdLists ==
  UNION {[1 .. len -> {"01", "02"}] : len \in 0 .. MaxIds}
    \cup {<<"01", "02", "03", "04", "05", "06", "07", "08">>,
          <<"01", "02", "03", "04", "05", "06", "07", "08", "09">>}

IdsArgs == {ArrayOf(items) : items \in IdLists} \cup {NotArray}

\* the options: none, a maxCount of 0 to 3, a separator
OptionsArgs ==
  {<<>>, [maxCount |-> 0], [maxCount |-> 1], [maxCount |-> 2], [maxCount |-> 3],
   [maxCount |-> 2, separator |-> ", "], [separator |-> ", "]}

NextFormat ==
  \E ids \in IdsArgs : \E options \in OptionsArgs :
    FormatIdsAndTruncateTrailingItems(ids, options)

SpecFormat == Init /\ [][NextFormat]_vars

\* the ids listed in a string of ids joined by a separator: s is those ids
\* with the separator between each two
Lists(s, ids, separator) ==
  /\ Len(s) = (IF Len(ids) = 0 THEN 0 ELSE 2 * Len(ids) - 1)
  /\ \A k \in 1 .. Len(ids) : s[2 * k - 1] = ids[k]
  /\ \A k \in 1 .. Len(ids) - 1 : s[2 * k] = separator

\* s is listed, ' and ', count in decimal digits, ' more', where listed
\* lists the first `shown` of ids
ListsAndMore(s, ids, shown, count, separator) ==
  \E cut \in 0 .. Len(s) - 3 :
    /\ Lists(SubSeq(s, 1, cut), SubSeq(ids, 1, shown), separator)
    /\ s[cut + 1] = " and "
    /\ \A k \in cut + 2 .. Len(s) - 1 : s[k] \in DigitChars
    /\ ParseNat(SubSeq(s, cut + 2, Len(s) - 1)) = count
    /\ s[Len(s)] = " more"

Reduced(state) == [threw |-> FALSE, state |-> state]
Thrown(state) == [threw |-> TRUE, state |-> state]

\* array.indexOf(value), from 0; -1 when no element is value
indexOf(array, value) ==
  IF \E i \in DOMAIN array : array[i] = value
  THEN (CHOOSE i \in DOMAIN array :
          array[i] = value /\ \A j \in 1 .. i - 1 : array[j] # value) - 1
  ELSE -1

\* array[index], from 0; undefined when the array has no such element
At(array, index) == IF index + 1 \in DOMAIN array THEN array[index + 1] ELSE undefined

\* array[index] = value, for an index the array has
SetAt(array, index, value) == [array EXCEPT ![index + 1] = value]

\* the two assignments that end adjustMissionMapping
adjustAssigning(mapping, uavId, to, from, uavIdToReplace) ==
  IF isNil(to)
  THEN (IF from >= 0 THEN SetAt(mapping, from, uavIdToReplace) ELSE mapping)
  ELSE SetAt(IF from >= 0 THEN SetAt(mapping, from, uavIdToReplace) ELSE mapping,
             to.n, uavId)

\* adjustMissionMapping once from and uavIdToReplace are known: assigning
\* null to the constant uavIdToReplace throws a TypeError
adjustReplacing(state, uavId, to, from, uavIdToReplace) ==
  IF uavIdToReplace = undefined
  THEN Thrown(state)
  ELSE Reduced([state EXCEPT
                  !.mapping = adjustAssigning(state.mapping, uavId, to, from,
                                              uavIdToReplace)])

adjustMissionMapping(state, payload) ==
  adjustReplacing(state, payload.uavId, payload.to,
                  indexOf(state.mapping, payload.uavId),
                  IF isNil(payload.to) THEN null ELSE At(state.mapping, payload.to.n))

cancelMappingEditorSessionAtCurrentSlot(state) ==
  Reduced([state EXCEPT !.mappingEditor.indexBeingEdited = -1])

\* new Array(numItems).fill(undefined)
clearMapping(state) ==
  Reduced([state EXCEPT !.mapping = [i \in 1 .. Len(state.mapping) |-> undefined]])

clearMappingSlot(state, index) ==
  IF index.n >= 0 /\ index.n < Len(state.mapping)
  THEN Reduced([state EXCEPT !.mapping = SetAt(state.mapping, index.n, undefined)])
  ELSE Reduced(state)

finishMappingEditorSession(state) ==
  Reduced([state EXCEPT !.mappingEditor = [enabled |-> FALSE, indexBeingEdited |-> -1]])

\* the value a commit stores: the value typed if it is a string that is not
\* empty, else null
validated(value) ==
  IF typeof(value) = "string" /\ value.str # "" THEN value ELSE null

\* commitMappingEditorSessionAtCurrentSlot that stores the value without
\* looking for it in the other slots
commitKeepingOthers(mapping, validatedValue, index, existingIndex) ==
  IF index >= 0 /\ index < Len(mapping)
  THEN SetAt(mapping, index, validatedValue)
  ELSE mapping

\* the mapping after a commit of validatedValue at index
commitAt(mapping, validatedValue, index, existingIndex) ==
  IF index >= 0 /\ index < Len(mapping)
  THEN SetAt(IF existingIndex >= 0
             THEN SetAt(mapping, existingIndex, At(mapping, index))
             ELSE mapping,
             index, validatedValue)
  ELSE mapping

\* commitMappingEditorSessionAtCurrentSlot; newEditIndex is what
\* getNewEditIndex(state, continuation) returns
commitMappingEditorSessionAtCurrentSlot(state, value, newEditIndex) ==
  Reduced([mapping |-> commitAt(state.mapping, validated(value),
                                state.mappingEditor.indexBeingEdited,
                                indexOf(state.mapping, validated(value))),
           mappingEditor |-> [state.mappingEditor EXCEPT
                                !.indexBeingEdited = newEditIndex]])

RECURSIVE removeEach(_, _)
removeEach(mapping, uavIds) ==
  IF uavIds = <<>> THEN mapping
  ELSE removeEach(IF indexOf(mapping, Head(uavIds)) >= 0
                  THEN SetAt(mapping, indexOf(mapping, Head(uavIds)), null)
                  ELSE mapping,
                  Tail(uavIds))

removeUAVsFromMapping(state, uavIds) ==
  Reduced([state EXCEPT !.mapping = removeEach(state.mapping, uavIds)])

\* the index startMappingEditorSessionAtSlot keeps
slotOf(tentativeIndex, numItems) ==
  IF tentativeIndex < 0 \/ tentativeIndex >= numItems THEN -1 ELSE tentativeIndex

startMappingEditorSessionAtSlot(state, payload) ==
  Reduced([state EXCEPT
             !.mappingEditor =
               [enabled |-> TRUE,
                indexBeingEdited |->
                  slotOf(IF typeof(payload) = "number" THEN payload.n ELSE -1,
                         Len(state.mapping))]])

startMappingEditorSession(state) ==
  Reduced([state EXCEPT !.mappingEditor = [enabled |-> TRUE, indexBeingEdited |-> -1]])

\* store.dispatch of an action of the slice; args is what is kept of the
\* payload
Dispatch(type, args, outcome) ==
  /\ call' = [op |-> type, args |-> args, out |-> [threw |-> outcome.threw]]
  /\ mission' = outcome.state
  /\ UNCHANGED notMission

AdjustMissionMapping(payload) ==
  Dispatch("adjustMissionMapping", payload, adjustMissionMapping(mission, payload))

CancelMappingEditorSessionAtCurrentSlot ==
  Dispatch("cancelMappingEditorSessionAtCurrentSlot", undefined,
           cancelMappingEditorSessionAtCurrentSlot(mission))

ClearMapping == Dispatch("clearMapping", undefined, clearMapping(mission))

ClearMappingSlot(index) ==
  Dispatch("clearMappingSlot", undefined, clearMappingSlot(mission, index))

FinishMappingEditorSession ==
  Dispatch("finishMappingEditorSession", undefined, finishMappingEditorSession(mission))

\* What getNewEditIndex returns: no slot, or the second
NewEditIndexes == {-1, 1}

\* getNewEditIndex is not among the sources: it is taken to return one of
\* NewEditIndexes
CommitMappingEditorSessionAtCurrentSlot(value) ==
  \E newEditIndex \in NewEditIndexes :
    Dispatch("commitMappingEditorSessionAtCurrentSlot",
             [value |-> value, at |-> mission.mappingEditor.indexBeingEdited],
             commitMappingEditorSessionAtCurrentSlot(mission, value, newEditIndex))

RemoveUAVsFromMapping(uavIds) ==
  Dispatch("removeUAVsFromMapping", undefined, removeUAVsFromMapping(mission, uavIds))

StartMappingEditorSessionAtSlot(payload) ==
  Dispatch("startMappingEditorSessionAtSlot", undefined,
           startMappingEditorSessionAtSlot(mission, payload))

StartMappingEditorSession ==
  Dispatch("startMappingEditorSession", undefined, startMappingEditorSession(mission))

\* The UAVs of the payloads: two of the mission and one that is not in it
UAVIds == {Str("01"), Str("03"), Str("04")}

\* The slots of the payloads: the first two, the third, which holds a UAV
\* at first, and one after the last
Slots == {N(0), N(1), N(2), N(5)}


NextMission ==
  \/ \E uavId \in UAVIds : \E to \in Slots \cup {undefined} :
       AdjustMissionMapping([uavId |-> uavId, to |-> to])
  \/ CancelMappingEditorSessionAtCurrentSlot
  \/ ClearMapping
  \/ \E index \in Slots : ClearMappingSlot(index)
  \/ FinishMappingEditorSession
  \/ \E value \in UAVIds \cup {Str(""), undefined} :
       CommitMappingEditorSessionAtCurrentSlot(value)
  \/ \E uavIds \in {<<>>, <<Str("01")>>, <<Str("03"), Str("04")>>} :
       RemoveUAVsFromMapping(uavIds)
  \/ \E payload \in {N(0), N(5), undefined} : StartMappingEditorSessionAtSlot(payload)
  \/ StartMappingEditorSession

SpecMission == Init /\ [][NextMission]_vars

(***************************************************************************)
(* Properties of the mission slice, under SpecMission                      *)
(***************************************************************************)
IsUAVId(value) == "str" \in DOMAIN value

\* no UAV id is in two slots of the mapping
NoDuplicateIds(mapping) ==
  \A i, j \in DOMAIN mapping :
    (IsUAVId(mapping[i]) /\ mapping[i] = mapping[j]) => i = j

\* the slot, from 1, where the mapping holds value; 0 when it does not
SlotHolding(mapping, value) ==
  IF \E i \in DOMAIN mapping : mapping[i] = value
  THEN CHOOSE i \in DOMAIN mapping : mapping[i] = value
  ELSE 0

\* a step that commits, at a slot of the mapping, a UAV id that another slot
\* holds: after it the slot holds the id, the other slot holds what the
\* slot held, and the rest is as it was
CommitSwaps ==
  (/\ call'.op = "commitMappingEditorSessionAtCurrentSlot"
   /\ IsUAVId(call'.args.value)
   /\ call'.args.value.str # ""
   /\ call'.args.at + 1 \in DOMAIN mission.mapping
   /\ SlotHolding(mission.mapping, call'.args.value) \notin {0, call'.args.at + 1}) =>
     \A i \in DOMAIN mission.mapping :
       mission'.mapping[i] =
         IF i = call'.args.at + 1 THEN call'.args.value
         ELSE IF i = SlotHolding(mission.mapping, call'.args.value)
         THEN mission.mapping[call'.args.at + 1]
         ELSE mission.mapping[i]

\* C15: in every state reachable by actions of the mission slice no UAV id
\* is in more than one slot of the mapping, and a commit of a value that
\* another slot holds swaps it with the old value of the slot being edited
MappingHasNoDuplicates ==
  /\ []NoDuplicateIds(mission.mapping)
  /\ [][CommitSwaps]_vars

\* '01' has been committed at the first slot, which held '03': they have
\* changed places
MappingHasNoDuplicatesReached ==
  /\ call.op = "commitMappingEditorSessionAtCurrentSlot"
  /\ call.args = [value |-> Str("01"), at |-> 0]
  /\ mission.mapping = <<Str("01"), null, Str("03"), Str("02"), null>>

\* C16: in every state reachable by actions of the mission slice each slot
\* of the mapping holds a UAV id or null, and nothing else
SlotsHoldIdsOrNull ==
  \A i \in DOMAIN mission.mapping :
    IsUAVId(mission.mapping[i]) \/ mission.mapping[i] = null

\* C20: in every reachable state adjustMissionMapping({uavId, to}) with
\* 0 <= to < mapping.length completes without error, puts uavId in slot to
\* and what that slot held in the slot uavId was in, if any, and leaves the
\* other slots alone; with a nil to it sets the slot uavId was in to null
\* and changes nothing else
AdjustMovesTheUAV ==
  [][call'.op = "adjustMissionMapping" =>
       IF isNil(call'.args.to)
       THEN /\ ~call'.out.threw
            /\ \A i \in DOMAIN mission.mapping :
                 mission'.mapping[i] =
                   IF mission.mapping[i] = call'.args.uavId THEN null
                   ELSE mission.mapping[i]
       ELSE (call'.args.to.n + 1 \in DOMAIN mission.mapping) =>
            /\ ~call'.out.threw
            /\ \A i \in DOMAIN mission.mapping :
                 mission'.mapping[i] =
                   IF i = call'.args.to.n + 1 THEN call'.args.uavId
                   ELSE IF mission.mapping[i] = call'.args.uavId
                   THEN mission.mapping[call'.args.to.n + 1]
                   ELSE mission.mapping[i]]_vars

(***************************************************************************)
(* THE MULTI-SELECTABLE LIST (src/src/components/helpers/lists.jsx)        *)
(***************************************************************************)
\* lodash includes, on an array
includes(array, value) == \E i \in DOMAIN array : array[i] = value

\* the elements of array that are not in other, in order
RECURSIVE difference(_, _)
difference(array, other) ==
  IF array = <<>> THEN <<>>
  ELSE IF includes(other, Head(array)) THEN difference(Tail(array), other)
  ELSE <<Head(array)>> \o difference(Tail(array), other)

\* the first occurrence of each element of array, in order
RECURSIVE uniq(_)
uniq(array) ==
  IF array = <<>> THEN <<>>
  ELSE uniq(SubSeq(array, 1, Len(array) - 1))
         \o (IF includes(SubSeq(array, 1, Len(array) - 1), array[Len(array)])
             THEN <<>> ELSE <<array[Len(array)]>>)

\* an xor that keeps what is in either array
xorKeepingBoth(array, other) == uniq(array \o other)

\* lodash xor of two arrays: the elements that are in exactly one of them,
\* each once
xor(array, other) == uniq(difference(array, other) \o difference(other, array))

\* the selection onItemSelected passes to onChange for an item
newSelection(value, id, modifier) ==
  IF modifier THEN xor(value, <<id>>) ELSE <<id>>

\* The parent renders the list with other props
Render(newProps) ==
  /\ props' = newProps
  /\ call' = [op |-> "render", args |-> <<>>, out |-> [threw |-> FALSE]]
  /\ UNCHANGED notList

\* A click on the item with this id, with the platform modifier key held or
\* not: the item's onItemSelected, if it has one, calls onChange with the
\* event and the new selection, and the parent renders the list with it
Click(id, modifier) ==
  /\ call' = [op |-> "click", args |-> <<id, modifier>>,
              out |-> IF props.onChange
                      THEN [threw |-> FALSE, onItemSelected |-> TRUE,
                            onChange |-> newSelection(props.value, id, modifier)]
                      ELSE [threw |-> FALSE, onItemSelected |-> FALSE]]
  /\ props' = IF props.onChange
              THEN [props EXCEPT !.value = call'.out.onChange]
              ELSE props
  /\ UNCHANGED notList

\* The ids of the items of the list
ItemIds == {"a", "b", "c", "d"}

\* The props a parent renders the list with: with and without onChange, and
\* with a selection that is empty, that has two ids, or that has an id twice
RenderedProps ==
  {[value |-> v, onChange |-> o] :
     v \in {<<>>, <<"a", "b">>, <<"b", "b">>}, o \in BOOLEAN}

NextList ==
  \/ \E newProps \in RenderedProps : Render(newProps)
  \/ \E id \in ItemIds : \E modifier \in BOOLEAN : Click(id, modifier)

SpecList == Init /\ [][NextList]_vars

\* the ids of a selection
Selected(value) == {value[i] : i \in DOMAIN value}

\* C17: a click on an item without the modifier key calls onChange with the
\* selection of that item alone; with the modifier key, with the old
\* selection and the item if it was not selected, and the old selection
\* without the item if it was, the other ids as they were, so that a second
\* such click would restore the selection; an item has no onItemSelected
\* when the list has no onChange
ClickSelectsOrToggles ==
  [][call'.op = "click" =>
       IF ~props.onChange
       THEN ~call'.out.onItemSelected /\ props' = props
       ELSE /\ call'.out.onItemSelected
            /\ ~call'.out.threw
            /\ ~call'.args[2] => call'.out.onChange = <<call'.args[1]>>
            /\ call'.args[2] =>
                 /\ Selected(call'.out.onChange) =
                      IF call'.args[1] \in Selected(props.value)
                      THEN Selected(props.value) \ {call'.args[1]}
                      ELSE Selected(props.value) \cup {call'.args[1]}
                 /\ Selected(newSelection(call'.out.onChange, call'.args[1], TRUE)) =
                      Selected(props.value)]_vars

\* 'a' has been clicked with the modifier key in a list whose selection was
\* 'a' and 'b': the selection is 'b'
ClickSelectsOrTogglesReached ==
  /\ call.op = "click"
  /\ call.args = <<"a", TRUE>>
  /\ call.out.onItemSelected
  /\ call.out.onChange = <<"b">>
  /\ props.value = <<"b">>

(***************************************************************************)
(* THE UAV (src/src/model/identifiers.js)                                  *)
(***************************************************************************)
\* new Date(timestamp)
Date(timestamp) == [time |-> timestamp]

\* whether a value counts as true in a condition
Truthy(value) == ~isNil(value) /\ value # N(0) /\ value # NaN /\ value # Str("")

\* the fields after `if (timestamp)`
withTimestamp(this, timestamp) ==
  IF Truthy(timestamp) THEN [this EXCEPT !.lastUpdated = Date(timestamp)] ELSE this

\* the fields after `if (position)`
withPosition(this, position) ==
  IF Truthy(position)
  THEN [this EXCEPT !.lat = Prop(position, "lat"),
                    !.lon = Prop(position, "lon"),
                    !.agl = IF Prop(position, "agl") # undefined
                            THEN position.agl ELSE this.agl,
                    !.amsl = IF Prop(position, "amsl") # undefined
                             THEN position.amsl ELSE this.amsl]
  ELSE this

\* the fields after `if (heading !== undefined)`
withHeading(this, heading) ==
  IF heading # undefined THEN [this EXCEPT !.heading = heading] ELSE this

\* the fields after `if (!_.isEqual(this.error, error))`
withError(this, error) ==
  IF this.error # error THEN [this EXCEPT !.error = error] ELSE this

\* the fields after `if (battery && battery.voltage !== this.battery.voltage)`
withBattery(this, battery) ==
  IF Truthy(battery) /\ Prop(battery, "voltage") # this.battery.voltage
  THEN [this EXCEPT !.battery = battery]
  ELSE this

\* the value of `updated` at the end of handleUAVStatusInfo
updatedBy(this, timestamp, position, heading, error, battery) ==
  \/ Truthy(timestamp)
  \/ Truthy(position)
  \/ heading # undefined
  \/ this.error # error
  \/ (Truthy(battery) /\ Prop(battery, "voltage") # this.battery.voltage)

\* uav.handleUAVStatusInfo(status): what it returns, and the fields after it
handleUAVStatusInfo(this, status) ==
  [value |-> updatedBy(this, Prop(status, "timestamp"), Prop(status, "position"),
                       Prop(status, "heading"), Prop(status, "error"),
                       Prop(status, "battery")),
   this |-> withBattery(
              withError(
                withHeading(
                  withPosition(
                    withTimestamp(this, Prop(status, "timestamp")),
                    Prop(status, "position")),
                  Prop(status, "heading")),
                Prop(status, "error")),
              Prop(status, "battery"))]

HandleUAVStatusInfo(status) ==
  /\ call' = [op |-> "handleUAVStatusInfo", args |-> <<status>>,
              out |-> [threw |-> FALSE, value |-> handleUAVStatusInfo(uav, status).value]]
  /\ uav' = handleUAVStatusInfo(uav, status).this
  /\ UNCHANGED notUAV

\* the records with some of the fields of a record
Parts(record) ==
  {[key \in keys |-> record[key]] : keys \in SUBSET DOMAIN record}

\* The statuses of UAV-INF messages: any part of two full ones, which have
\* the same heading and battery voltage
Statuses ==
  Parts([timestamp |-> N(1000),
         position |-> [lat |-> N(47), lon |-> N(19)],
         heading |-> N(90),
         error |-> N(1),
         battery |-> [voltage |-> N(12), percentage |-> N(50)]])
  \cup
  Parts([timestamp |-> N(0),
         position |-> [lat |-> N(47), lon |-> N(19), agl |-> N(5), amsl |-> N(105)],
         heading |-> N(90),
         battery |-> [voltage |-> N(12), percentage |-> N(40)]])

NextUAV == \E status \in Statuses : HandleUAVStatusInfo(status)

SpecUAV == Init /\ [][NextUAV]_vars

\* C18: handleUAVStatusInfo returns true if and only if the call changed
\* one of lastUpdated, lat, lon, agl, amsl, heading, error and battery
ReturnsWhetherChanged ==
  [][call'.op = "handleUAVStatusInfo" => (call'.out.value <=> uav' # uav)]_vars

\* C21: a commit of an empty value or of one that is not a string, while a
\* slot of the mapping is being edited, sets that slot to null and leaves
\* every other slot as it was
CommitOfNothingClearsTheSlot ==
  [][(/\ call'.op = "commitMappingEditorSessionAtCurrentSlot"
      /\ (~IsUAVId(call'.args.value) \/ call'.args.value.str = "")
      /\ call'.args.at + 1 \in DOMAIN mission.mapping) =>
       \A i \in DOMAIN mission.mapping :
         mission'.mapping[i] =
           IF i = call'.args.at + 1 THEN null ELSE mission.mapping[i]]_vars

\* C22: activating the Takeoff, Land, Return to home, Reboot or Halt item
\* of the context menu with UAVs selected does not raise an error and sends
\* one command message whose ids are exactly the selected UAVs
CommandItemsSendOneMessage ==
  [][call'.op = "commandItem" =>
       /\ ~call'.out.threw
       /\ Len(sent') = Len(sent) + 1
       /\ SubSeq(sent', 1, Len(sent)) = sent
       /\ sent'[Len(sent')].ids = call'.args[2].selectedUAVIds]_vars

(***************************************************************************)
(* toggleErrorUAVs (src/src/utils/messaging.js)                            *)
(***************************************************************************)
\* the error toggleErrorUAVs switches to: [Math.floor(Math.random() * 256)]
\* when there is none, else none
toggled(error, random) == IF Len(error) = 0 THEN <<random>> ELSE <<>>

\* the log entry of toggleErrorUAVs that looks at the arguments the call
\* sent
toggleEntryOfSent(uavs, error, args) ==
  LogEntry("info",
    IF Len(args) = 0
    THEN <<"The error state of UAVs ">> \o Join(uavs, ",") \o <<" were cleared.">>
    ELSE <<"UAVs ">> \o Join(uavs, ",") \o <<" were sent to error state ">>
           \o NatToString(args[1]) \o <<".">>)

\* the log entry toggleErrorUAVs writes after the await: error is
\* currentError as it is then, args is what the call sent
toggleEntry(uavs, error, args) ==
  LogEntry("info",
    IF Len(error) = 0
    THEN <<"The error state of UAVs ">> \o Join(uavs, ",") \o <<" were cleared.">>
    ELSE <<"UAVs ">> \o Join(uavs, ",") \o <<" were sent to error state ">>
           \o NatToString(error[1]) \o <<".">>)

\* Most calls of toggleErrorUAVs in a run
MaxToggles == 3

\* toggleErrorUAVs(uavs) up to its await: currentError is switched and the
\* CMD-REQ message is handed to the hub
ToggleErrorUAVs(uavs, random) ==
  /\ Len(toggles) < MaxToggles
  /\ currentError' = toggled(currentError, random)
  /\ sent' = Append(sent, [type |-> "CMD-REQ", ids |-> uavs, command |-> "error",
                           args |-> currentError'])
  /\ toggles' = Append(toggles, [uavs |-> uavs, args |-> currentError',
                                 state |-> "awaiting"])
  /\ call' = [op |-> "toggleErrorUAVs", args |-> <<uavs>>, out |-> [threw |-> FALSE]]
  /\ UNCHANGED <<promises, log>>
  /\ UNCHANGED notMessaging

\* The promise that call i of toggleErrorUAVs awaits resolves: the call
\* goes on and writes its log entry
ToggleResumes(i) ==
  /\ toggles[i].state = "awaiting"
  /\ log' = Append(log, toggleEntry(toggles[i].uavs, currentError, toggles[i].args))
  /\ toggles' = [toggles EXCEPT ![i].state = "done"]
  /\ call' = [op |-> "toggleResumes", args |-> <<i>>, out |-> [threw |-> FALSE]]
  /\ UNCHANGED <<sent, promises, currentError>>
  /\ UNCHANGED notMessaging

\* The promise that call i awaits is rejected: the call ends there
ToggleFails(i) ==
  /\ toggles[i].state = "awaiting"
  /\ toggles' = [toggles EXCEPT ![i].state = "failed"]
  /\ call' = [op |-> "toggleFails", args |-> <<i>>, out |-> [threw |-> TRUE]]
  /\ UNCHANGED <<sent, promises, log, currentError>>
  /\ UNCHANGED notMessaging

\* What Math.floor(Math.random() * 256) gives: the least, one between, the
\* most
RandomCodes == {0, 7, 255}

NextToggle ==
  \/ \E uavs \in {<<"01">>, <<"02", "03">>} : \E random \in RandomCodes :
       ToggleErrorUAVs(uavs, random)
  \/ \E i \in DOMAIN toggles : ToggleResumes(i)
  \/ \E i \in DOMAIN toggles : ToggleFails(i)

SpecToggle == Init /\ [][NextToggle]_vars

\* C23: when calls of toggleErrorUAVs overlap, the log entry of each call
\* describes the arguments that call sent: 'sent to error state' with the
\* code for a call that sent one, 'cleared' for a call that sent none
ToggleLogsWhatItSent ==
  [][call'.op = "toggleResumes" =>
       /\ Len(log') = Len(log) + 1
       /\ log'[Len(log')] =
            toggleEntryOfSent(toggles[call'.args[1]].uavs, currentError,
                              toggles[call'.args[1]].args)]_vars

=============================================================================
